---- MODULE Spec2Model ----
(***************************************************************************)
(* A model of the control-state propagation and dataset-lifecycle core of  *)
(* blackhole (src/src/blackhole/base.py): BHDatasetManager, the            *)
(* subscription broadcaster of BHMainWindow and the BHListenerWidget       *)
(* contract.                                                               *)
(*                                                                         *)
(* Every method is one action that models the whole call.  What a call     *)
(* did, in the order it did it, is kept in `last` (operation, arguments,   *)
(* result, and the sequence of events of the call), so that ordering and   *)
(* "exactly once" statements are state predicates over the last call.      *)
(* Python's 0-based indices are kept as values (active_datasets holds the  *)
(* 0-based index into loaded_data); TLA+ sequences are 1-based, hence the  *)
(* +1 / -1 at every sequence access.                                       *)
(***************************************************************************)
EXTENDS Integers, Sequences, FiniteSets, TLC

VARIABLES
    expected_file_parameters, \* BHDatasetManager.expected_file_parameters
    abbrevs,                  \* BHDatasetManager.abbrevs
    loaded_data,              \* BHDatasetManager.loaded_data (the cache)
    active_datasets,          \* BHDatasetManager.active_datasets (slot -> index)
    sources_info,             \* BHDatasetManager.sources_info (the catalog)
    org_structure,            \* BHDatasetManager.org_structure
    load_function,            \* BHDatasetManager.load_function (user loader)
    broadcast_callback,       \* BHDatasetManager.broadcast_callback
    dataset_subscribers,      \* BHMainWindow.dataset_subscribers
    control_subscribers,      \* BHMainWindow.control_subscribers
    listeners,                \* the BHListenerWidget objects that exist
    control_requested,        \* BHMainWindow.control_requested._parameters
    file_tabs,                \* the FileAnalyzerFileTab objects, by file
    tasks,                    \* the QThread/FileAnalyzerWorker pairs started
    signals,                  \* finished signals emitted and not yet delivered
    loader_calls,             \* instrumentation: calls of load_function per unique_id
    last                      \* instrumentation: the last call and what it did

dmVars == <<expected_file_parameters, abbrevs, loaded_data, active_datasets,
            sources_info, org_structure, load_function, broadcast_callback>>
mwVars == <<dataset_subscribers, control_subscribers, listeners,
            control_requested>>
faVars == <<file_tabs, tasks, signals>>
vars == <<dmVars, mwVars, faVars, loader_calls, last>>

----------------------------------------------------------------------------
(* Bounds of the model *)

MaxSources == 2       \* data-source records in a configuration
MaxLayers == 3        \* organization_structure records in a configuration
MaxLayerIdx == 2      \* largest layer index a record may carry
MaxDatasetSubs == 2   \* dataset subscribers registered with the main window
RecursionFuel == 3    \* depth at which a cyclic abbreviation ends in RecursionError

\* The slot keys in use: 0 is the default slot (base.py 387, 419), 1 and 2 the
\* secondary and tertiary ones.  Slots are dictionary keys; the code treats
\* every key alike.
Slots == {0, 1, 2}
UniqueIds == 0 .. MaxSources      \* MaxSources itself is never catalogued

EmptyMap == [x \in {} |-> 0]

\* The value a Python call hands back: a one-element sequence, or <<>> for None.
None == <<>>
Some(v) == <<v>>

\* The record of a call.
Call(op, args, ret, value, events) ==
    [op |-> op, args |-> args, ret |-> ret, value |-> value, events |-> events]

\* One thing a call did: ev names it, who is whom it concerns, what is what was
\* written, read or shown; raised tells that it ended in an exception.
Event(ev, who, what) == [ev |-> ev, who |-> who, what |-> what, raised |-> FALSE]
RaiseEvent(ev, who) == [ev |-> ev, who |-> who, what |-> <<>>, raised |-> TRUE]

EventsOf(events, ev) == SelectSeq(events, LAMBDA e : e.ev = ev)

\* Position of the first event named ev, 0 when there is none.
FirstPos(events, ev) ==
    IF \E i \in 1 .. Len(events) : events[i].ev = ev
    THEN CHOOSE i \in 1 .. Len(events) :
            /\ events[i].ev = ev
            /\ \A j \in 1 .. (i - 1) : events[j].ev # ev
    ELSE 0

----------------------------------------------------------------------------
(* apply_abbreviations / expand_path_list (base.py 16-46).  A path is a     *)
(* list of segments; os.path.join is modelled as the list of the joined    *)
(* segments.  The result is [ok, val]: ok is FALSE when the call raises    *)
(* (os.path.join of no segment is a TypeError; an abbreviation that        *)
(* expands to itself ends in RecursionError).                              *)

RECURSIVE expand_path_list(_, _, _)
RECURSIVE apply_abbreviations(_, _, _)

apply_abbreviations(path, abbrevs_, fuel) ==
    IF path = <<>> THEN [ok |-> TRUE, val |-> <<>>]
    ELSE LET pd == Head(path)
             hd == IF pd \in DOMAIN abbrevs_
                   THEN expand_path_list(abbrevs_[pd], abbrevs_, fuel - 1)
                   ELSE [ok |-> TRUE, val |-> <<pd>>]
         IN IF ~hd.ok THEN [ok |-> FALSE, val |-> <<>>]
            ELSE LET tl == apply_abbreviations(Tail(path), abbrevs_, fuel)
                 IN IF ~tl.ok THEN [ok |-> FALSE, val |-> <<>>]
                    ELSE [ok |-> TRUE, val |-> hd.val \o tl.val]

expand_path_list(path, abbrevs_, fuel) ==
    IF fuel <= 0 THEN [ok |-> FALSE, val |-> <<>>]
    ELSE LET npath == apply_abbreviations(path, abbrevs_, fuel)
         IN IF ~npath.ok \/ npath.val = <<>>
            THEN [ok |-> FALSE, val |-> <<>>]
            ELSE npath

----------------------------------------------------------------------------
(* BHDataSource / BHDataset / DataFilterLayer constructors *)

\* BHDataSource.__init__ (base.py 200-206): valid_idx is dropped.
BHDataSource(filename, params, valid_idx, unique_id) ==
    [file_fullpath |-> filename,
     file_name |-> <<filename[Len(filename)]>>,
     parameters |-> params,
     valid_active_set_indices |-> <<>>,
     unique_id |-> unique_id]

\* BHDataset.__init__ (base.py 218-224)
BHDataset(source_info) ==
    [source_info |-> source_info, unique_id |-> source_info.unique_id]

\* DataFilterLayer.__init__ (base.py 228-238)
DataFilterLayer(layer_idx, group_parameters, include_all) ==
    [layer_idx |-> layer_idx, group_parameters |-> group_parameters,
     include_all_option |-> include_all]

----------------------------------------------------------------------------
(* BHDatasetManager.load_configuration (base.py 277-385).                   *)
(*                                                                         *)
(* A configuration file is the record                                      *)
(*   [readable, sections, dir_abbrev, data_sources, organization_structure]*)
(* readable: open() and json.load() succeed; sections: the top-level keys  *)
(* present.  Every JSON object carries `keys`, the keys present in it:     *)
(* reading an absent key is a KeyError.  A dict is a function; the list of *)
(* a dict's keys is modelled as their set.                                 *)

DictSet(d, k, v) == [x \in (DOMAIN d) \cup {k} |-> IF x = k THEN v ELSE d[x]]

RECURSIVE DictUpdate(_, _, _)
\* for ua in user_abbrevs: self.abbrevs[ua] = user_abbrevs[ua]  (base.py 297-298)
DictUpdate(d, other, ks) ==
    IF ks = {} THEN d
    ELSE LET k == CHOOSE x \in ks : TRUE
         IN DictUpdate(DictSet(d, k, other[k]), other, ks \ {k})

\* A reader that checks the entries and stores none of them.
ReadAbbrevs_Discards(entries, abbrevs_) ==
    [ok |-> \A i \in 1 .. Len(entries) :
                {"shortcut", "expanded"} \subseteq entries[i].keys,
     abbrevs |-> abbrevs_]

RECURSIVE ReadAbbrevs(_, _)
\* base.py 315-323: [ok, abbrevs]; an entry without 'shortcut' or 'expanded'
\* raises KeyError after the entries before it were stored.
ReadAbbrevs(entries, abbrevs_) ==
    IF entries = <<>> THEN [ok |-> TRUE, abbrevs |-> abbrevs_]
    ELSE LET ab == Head(entries)
         IN IF ~({"shortcut", "expanded"} \subseteq ab.keys)
            THEN [ok |-> FALSE, abbrevs |-> abbrevs_]
            ELSE ReadAbbrevs(Tail(entries),
                             DictSet(abbrevs_, ab.shortcut, ab.expanded))

\* A loop that never advances the id.
NextUniqueId_Stuck(next_unique_id) == next_unique_id

\* A loop that starts every record at id 0.
NextUniqueId_Resets(next_unique_id) == 0

\* next_unique_id += 1  (base.py 358)
NextUniqueId(next_unique_id) == next_unique_id + 1

RECURSIVE ReadDataSources(_, _, _, _, _, _)
\* base.py 326-362: the loop over data_conf['data_sources'].
\* [ok, expected_file_parameters, sources_info].  first_iter is set at 326 and
\* assigned nowhere else, so it is handed on unchanged.
ReadDataSources(srcs, first_iter, next_unique_id, efp, si, abbrevs_) ==
    IF srcs = <<>>
    THEN [ok |-> TRUE, expected_file_parameters |-> efp, sources_info |-> si]
    ELSE
    LET srcdict == Head(srcs)
        failed(e) == [ok |-> FALSE, expected_file_parameters |-> e,
                      sources_info |-> si]
        file == IF "file_path" \in srcdict.keys
                THEN expand_path_list(srcdict.file_path, abbrevs_, RecursionFuel)
                ELSE [ok |-> FALSE, val |-> <<>>]
        \* 341-342
        efp1 == IF first_iter THEN DOMAIN srcdict.parameters ELSE efp
    IN  IF ~file.ok THEN failed(efp)                            \* 333-338
        ELSE IF first_iter /\ "parameters" \notin srcdict.keys
        THEN failed(efp)                                        \* 342 KeyError
        ELSE IF efp1 # {} /\ "parameters" \notin srcdict.keys
        THEN failed(efp1)                                       \* 349 KeyError
        ELSE IF \E p \in efp1 : p \notin DOMAIN srcdict.parameters
        THEN failed(efp1)                                       \* 349-351
        ELSE IF "valid_active_set_indices" \notin srcdict.keys
        THEN failed(efp1)                                       \* 357 KeyError
        ELSE ReadDataSources(
                Tail(srcs), first_iter, NextUniqueId(next_unique_id), efp1,
                Append(si, BHDataSource(file.val,
                                        [p \in efp1 |-> srcdict.parameters[p]],
                                        <<>>, next_unique_id)),
                abbrevs_)

RECURSIVE ReadOrgStructure(_, _)
\* base.py 365-372: [ok, org_structure]
ReadOrgStructure(recs, org) ==
    IF recs = <<>> THEN [ok |-> TRUE, org_structure |-> org]
    ELSE LET srcdict == Head(recs)
         IN IF ~({"layer", "group_parameters", "include_all_option"}
                    \subseteq srcdict.keys)
            THEN [ok |-> FALSE, org_structure |-> org]
            ELSE ReadOrgStructure(
                    Tail(recs),
                    Append(org, DataFilterLayer(srcdict.layer,
                                                srcdict.group_parameters,
                                                srcdict.include_all_option)))

\* base.py 377-380: the number of layers at level i
Found(org, i) == Cardinality({k \in 1 .. Len(org) : org[k].layer_idx = i})

\* A check that rejects duplicates only.
LayerCheckFails_OnlyDuplicates(found) == found > 1

\* base.py 381: if found != 1
LayerCheckFails(found) == found # 1

\* base.py 375-383
LayersValid(org) ==
    \A i \in 0 .. (Len(org) - 1) : ~LayerCheckFails(Found(org, i))

\* The whole call: the manager's fields after it and what it returned
\* ("True", "False", or "raise" when an exception leaves the call).
\* args = [filename, filepath, user_abbrevs]; filename is TRUE when given,
\* filepath is None or Some(path).
load_configuration(abb, efp, si, org, args, conf) ==
    LET abb1 == DictUpdate(abb, args.user_abbrevs, DOMAIN args.user_abbrevs)
        out(ret, a, e, s, o) ==
            [ret |-> ret, abbrevs |-> a, expected_file_parameters |-> e,
             sources_info |-> s, org_structure |-> o]
        located ==
            IF args.filename THEN TRUE
            ELSE IF args.filepath = None THEN FALSE               \* 303
            ELSE expand_path_list(args.filepath[1], args.user_abbrevs,
                                  RecursionFuel).ok               \* 304
        ab == IF "dir_abbrev" \in conf.sections
              THEN ReadAbbrevs(conf.dir_abbrev, abb1)
              ELSE [ok |-> FALSE, abbrevs |-> abb1]
        ds == IF "data_sources" \in conf.sections
              THEN ReadDataSources(conf.data_sources, TRUE, 0, efp, si,
                                   ab.abbrevs)
              ELSE [ok |-> FALSE, expected_file_parameters |-> efp,
                    sources_info |-> si]
        os == IF "organization_structure" \in conf.sections
              THEN ReadOrgStructure(conf.organization_structure, org)
              ELSE [ok |-> FALSE, org_structure |-> org]
    IN  IF ~located THEN out("raise", abb1, efp, si, org)
        ELSE IF ~conf.readable THEN out("False", abb1, efp, si, org)  \* 307-312
        ELSE IF ~ab.ok THEN out("False", ab.abbrevs, efp, si, org)    \* 321-323
        ELSE IF ~ds.ok
        THEN out("False", ab.abbrevs, ds.expected_file_parameters,
                 ds.sources_info, org)
        ELSE IF ~os.ok
        THEN out("False", ab.abbrevs, ds.expected_file_parameters,
                 ds.sources_info, os.org_structure)
        ELSE out(IF LayersValid(os.org_structure) THEN "True" ELSE "False",
                 ab.abbrevs, ds.expected_file_parameters, ds.sources_info,
                 os.org_structure)


----------------------------------------------------------------------------
(* BHDatasetManager: the cache, the slot map and the dataset broadcast      *)

MaxLoaderCalls == 2   \* calls of a raising loader that are followed per unique_id

\* The loaders a manager is built with: load_chirp_dataset-like (returns
\* BHDataset(source)), or one that raises.
LoadFunctions == {"returns_dataset", "raises"}

\* dataset_changed_callback of a dataset subscriber (base.py 89-106):
\*   "no_callback": None; "observer": a user callback that reads get_active of
\*   every slot; "descriptor": BHDatasetDescriptorWidget.update_descriptor.
CallbackKinds == {"no_callback", "observer", "descriptor"}

\* A faulty FindLoaded: the cache is never consulted.
FindLoaded_NeverHits(ld, unique_id) == 0

\* base.py 392-393: 1-based position of the first cached dataset carrying
\* unique_id, 0 when the loop ends without a hit.
FindLoaded(ld, unique_id) ==
    IF \E i \in 1 .. Len(ld) : ld[i].unique_id = unique_id
    THEN CHOOSE i \in 1 .. Len(ld) :
            /\ ld[i].unique_id = unique_id
            /\ \A j \in 1 .. (i - 1) : ld[j].unique_id # unique_id
    ELSE 0

\* A faulty FindSource: the loop variable is used after a loop without a hit.
FindSource_LastOnMiss(si, unique_id) ==
    IF \E i \in 1 .. Len(si) : si[i].unique_id = unique_id
    THEN CHOOSE i \in 1 .. Len(si) : si[i].unique_id = unique_id
    ELSE Len(si)

\* base.py 400-402: 1-based position of the first catalogued source carrying
\* unique_id, 0 when the loop ends without a hit.
FindSource(si, unique_id) ==
    IF \E i \in 1 .. Len(si) : si[i].unique_id = unique_id
    THEN CHOOSE i \in 1 .. Len(si) :
            /\ si[i].unique_id = unique_id
            /\ \A j \in 1 .. (i - 1) : si[j].unique_id # unique_id
    ELSE 0

\* A faulty get_active: an unset slot falls back to the default slot 0.
get_active_FallsBackToDefault(ld, ad, active_index) ==
    IF active_index \in DOMAIN ad THEN Some(ld[ad[active_index] + 1])
    ELSE IF 0 \in DOMAIN ad THEN Some(ld[ad[0] + 1])
    ELSE None

\* BHDatasetManager.get_active (base.py 419-430): None, or the cached dataset
\* the slot's index names.
get_active(ld, ad, active_index) ==
    IF active_index \notin DOMAIN ad THEN None
    ELSE Some(ld[ad[active_index] + 1])

\* What an observer callback reads: get_active(s).unique_id per slot, -1 for None.
Snapshot(ld, ad) ==
    [s \in Slots |-> IF get_active(ld, ad, s) = None THEN -1
                     ELSE get_active(ld, ad, s)[1].unique_id]

\* BHDatasetDescriptorWidget.update_descriptor (base.py 482-499): reads slot 0
\* (get_active() with the default index); ds.source_info on None is an
\* AttributeError, a parameter the source lacks a KeyError.
update_descriptor_raises(ld, ad, efp) ==
    LET ds == get_active(ld, ad, 0)
    IN  \/ ds = None
        \/ \E param \in efp : param \notin DOMAIN ds[1].source_info.parameters

\* BHWidget._dataset_changed (base.py 99-106) of subscriber number k:
\* the event of the call.
dataset_changed(k, kind, ld, ad, efp) ==
    CASE kind = "no_callback" -> Event("_dataset_changed", k, "no_callback")
      [] kind = "observer" -> Event("_dataset_changed", k, Snapshot(ld, ad))
      [] kind = "descriptor" ->
            IF update_descriptor_raises(ld, ad, efp)
            THEN RaiseEvent("_dataset_changed", k)
            ELSE Event("_dataset_changed", k,
                       Some(get_active(ld, ad, 0)[1].unique_id))

\* A broadcaster that takes no notice of an exception.
Raised_Swallowed(e) == FALSE

Raised(e) == e.raised

RECURSIVE broadcast_dataset_changes(_, _, _, _, _)
\* BHMainWindow.broadcast_dataset_changes (base.py 657-661), from subscriber k
\* on: the events of the calls made; a callback that raises ends the loop.
broadcast_dataset_changes(k, subs, ld, ad, efp) ==
    IF k > Len(subs) THEN <<>>
    ELSE LET e == dataset_changed(k, subs[k], ld, ad, efp)
         IN IF Raised(e) THEN <<e>>
            ELSE <<e>> \o broadcast_dataset_changes(k + 1, subs, ld, ad, efp)

\* BHDatasetManager.broadcast_was_changed (base.py 415-417)
broadcast_was_changed(cb, subs, ld, ad, efp) ==
    IF cb = "None" THEN <<>>
    ELSE <<Event("broadcast_callback", 0, cb)>>
            \o broadcast_dataset_changes(1, subs, ld, ad, efp)

\* A faulty ActivateSlot: the change is broadcast before the slot is written.
ActivateSlot_BroadcastFirst(ld, ad, active_index, idx, cb, subs, efp) ==
    [active_datasets |-> DictSet(ad, active_index, idx),
     events |-> broadcast_was_changed(cb, subs, ld, ad, efp)
                    \o <<Event("write", active_index, idx)>>]

\* A faulty ActivateSlot: active_index is ignored, the default slot is written.
ActivateSlot_DefaultSlot(ld, ad, active_index, idx, cb, subs, efp) ==
    [active_datasets |-> DictSet(ad, 0, idx),
     events |-> <<Event("write", 0, idx)>>
                    \o broadcast_was_changed(cb, subs, ld, DictSet(ad, 0, idx), efp)]

\* A faulty ActivateSlot: the position in the cache is stored counting from 1.
ActivateSlot_OneBased(ld, ad, active_index, idx, cb, subs, efp) ==
    [active_datasets |-> DictSet(ad, active_index, idx + 1),
     events |-> <<Event("write", active_index, idx + 1)>>
                    \o broadcast_was_changed(cb, subs, ld, ad, efp)]

\* base.py 394-396 and 405-407: the slot is written, then the change is
\* broadcast.  [active_datasets, events]
ActivateSlot(ld, ad, active_index, idx, cb, subs, efp) ==
    LET ad1 == DictSet(ad, active_index, idx)
    IN [active_datasets |-> ad1,
        events |-> <<Event("write", active_index, idx)>>
                    \o broadcast_was_changed(cb, subs, ld, ad1, efp)]

\* A cache that puts the newest Dataset first.
CacheAppend_AtFront(ld, ds) == <<ds>> \o ld

\* base.py 404: self.loaded_data.append(...)
CacheAppend(ld, ds) == Append(ld, ds)

AnyRaised(events) == \E i \in 1 .. Len(events) : Raised(events[i])

\* BHDatasetManager.set_active_dataset (base.py 387-413) as a function of the
\* manager's state: [ret, loaded_data, active_datasets, loaded, events], where
\* loaded tells whether load_function was called.
set_active_dataset(unique_id, active_index) ==
    LET hit == FindLoaded(loaded_data, unique_id)
        src == FindSource(sources_info, unique_id)
        res(ret, ld, ad, loaded, events) ==
            [ret |-> ret, loaded_data |-> ld, active_datasets |-> ad,
             loaded |-> loaded, events |-> events]
    IN  IF hit # 0
        THEN LET a == ActivateSlot(loaded_data, active_datasets, active_index,
                                   hit - 1, broadcast_callback,
                                   dataset_subscribers, expected_file_parameters)
             IN res(IF AnyRaised(a.events) THEN "raise" ELSE "True",
                    loaded_data, a.active_datasets, FALSE, a.events)
        ELSE IF src # 0
        THEN IF load_function = "raises"
             THEN res("raise", loaded_data, active_datasets, TRUE,
                      <<RaiseEvent("load_function", unique_id)>>)
             ELSE LET ld == CacheAppend(loaded_data,
                                        BHDataset(sources_info[src]))
                      a == ActivateSlot(ld, active_datasets, active_index,
                                        Len(ld) - 1, broadcast_callback,
                                        dataset_subscribers,
                                        expected_file_parameters)
                  IN res(IF AnyRaised(a.events) THEN "raise" ELSE "True",
                         ld, a.active_datasets, TRUE,
                         <<Event("load_function", unique_id, "returned")>>
                            \o a.events)
        ELSE res("False", loaded_data, active_datasets, FALSE, <<>>)

SetActiveDataset(unique_id, active_index) ==
    \E r \in {set_active_dataset(unique_id, active_index)} :
        /\ r.loaded => loader_calls[unique_id] < MaxLoaderCalls
        /\ loaded_data' = r.loaded_data
        /\ active_datasets' = r.active_datasets
        /\ loader_calls' = IF r.loaded
                           THEN [loader_calls EXCEPT ![unique_id] = @ + 1]
                           ELSE loader_calls
        /\ last' = Call("set_active_dataset", <<unique_id, active_index>>,
                        r.ret, None, r.events)
        /\ UNCHANGED <<expected_file_parameters, abbrevs, sources_info,
                       org_structure, load_function, broadcast_callback, mwVars,
                       faVars>>

GetActive(active_index) ==
    \E ds \in {get_active(loaded_data, active_datasets, active_index)} :
        /\ last' = Call("get_active", <<active_index>>,
                        IF ds = None THEN "None" ELSE "dataset", ds, <<>>)
        /\ UNCHANGED <<dmVars, mwVars, faVars, loader_calls>>

\* BHMainWindow.__init__ (base.py 610-621): installs the manager's callback and
\* starts with no subscriber.
BHMainWindowInit ==
    /\ broadcast_callback = "None"
    /\ broadcast_callback' = "broadcast_dataset_changes"
    /\ dataset_subscribers' = <<>>
    /\ control_subscribers' = <<>>
    /\ control_requested' = EmptyMap
    /\ last' = Call("BHMainWindow.__init__", <<>>, "None", None, <<>>)
    /\ UNCHANGED <<expected_file_parameters, abbrevs, loaded_data,
                   active_datasets, sources_info, org_structure, load_function,
                   listeners, faVars, loader_calls>>

\* BHMainWindow.add_dataset_subscriber (base.py 649-655)
AddDatasetSubscriber(kind) ==
    /\ broadcast_callback # "None"
    /\ Len(dataset_subscribers) < MaxDatasetSubs
    /\ dataset_subscribers' = Append(dataset_subscribers, kind)
    /\ last' = Call("add_dataset_subscriber", <<kind>>, "None", None, <<>>)
    /\ UNCHANGED <<dmVars, control_subscribers, listeners, control_requested,
                   faVars, loader_calls>>

----------------------------------------------------------------------------
(* BHListenerWidget and the control broadcast                               *)

MaxControlSubs == 2   \* registrations with add_control_subscriber

\* The listener widgets of a window: two plots in tabs and a file analyzer.
Widgets == {"plot1", "plot2", "analyzer"}

WidgetClass ==
    [w \in Widgets |->
        IF w = "analyzer" THEN "FileAnalyzerWidget" ELSE "BHMultiPlotWidget"]

\* The widgets whose custom_render_func is user code that can raise
\* (widgets.py 172-173).
Renderers == {w \in Widgets : WidgetClass[w] = "BHMultiPlotWidget"}

\* At most one render fails per call: the first failure ends the call.
RaisingSets == {{}} \cup {{w} : w \in Renderers}

\* BHListenerWidget.__init__ (base.py 113-117)
BHListenerWidget == [_is_active |-> TRUE, is_current |-> FALSE]

\* _render_widget: BHMultiPlotWidget's (widgets.py 169-191) ends with
\* is_current = True unless custom_render_func raised; FileAnalyzerWidget
\* inherits the base body, `pass` (base.py 144-148).
\* [listeners, events, raised]; the event records the listener's flags at
\* the moment the routine is entered.
render_widget(ls, w, raising) ==
    IF WidgetClass[w] = "BHMultiPlotWidget"
    THEN IF w \in raising
         THEN [listeners |-> ls, raised |-> TRUE,
               events |-> <<RaiseEvent("_render_widget", w)>>]
         ELSE [listeners |-> [ls EXCEPT ![w].is_current = TRUE],
               raised |-> FALSE,
               events |-> <<Event("_render_widget", w, ls[w])>>]
    ELSE [listeners |-> ls, raised |-> FALSE,
          events |-> <<Event("_render_widget", w, ls[w])>>]

\* A gate that forgets is_active().
EnsureCurrentRenders_IgnoresActive(l) == ~l.is_current

\* base.py 141: if self.is_active() and (not self.is_current)
EnsureCurrentRenders(l) == l._is_active /\ ~l.is_current

\* BHListenerWidget._ensure_current (base.py 137-142)
ensure_current(ls, w, raising) ==
    IF EnsureCurrentRenders(ls[w])
    THEN render_widget(ls, w, raising)
    ELSE [listeners |-> ls, raised |-> FALSE, events |-> <<>>]

\* BHListenerWidget._get_update (base.py 127-135)
get_update(ls, w, raising) ==
    LET r == ensure_current([ls EXCEPT ![w].is_current = FALSE], w, raising)
    IN  [listeners |-> r.listeners, raised |-> r.raised,
         events |-> <<Event("_get_update", w, 0)>> \o r.events]

\* BHListenerWidget.set_active (base.py 122-125)
set_active(ls, w, b, raising) ==
    ensure_current([ls EXCEPT ![w]._is_active = b], w, raising)

\* A registration that puts the newcomer first.
add_control_subscriber_Prepends(subs, widget) == <<widget>> \o subs

\* BHMainWindow.add_control_subscriber (base.py 637-641)
add_control_subscriber(subs, widget) == Append(subs, widget)

RECURSIVE broadcast_control_changes(_, _, _)
\* BHMainWindow.broadcast_control_changes (base.py 643-647): an exception
\* in sub._get_update() leaves the loop.
broadcast_control_changes(subs, ls, raising) ==
    IF subs = <<>>
    THEN [listeners |-> ls, raised |-> FALSE, events |-> <<>>]
    ELSE LET r == get_update(ls, Head(subs), raising)
         IN  IF r.raised THEN r
             ELSE LET rest == broadcast_control_changes(Tail(subs),
                                                        r.listeners, raising)
                  IN  [listeners |-> rest.listeners, raised |-> rest.raised,
                       events |-> r.events \o rest.events]

Ret(raised) == IF raised THEN "raise" ELSE "None"

AddControlSubscriber(widget) ==
    /\ Len(control_subscribers) < MaxControlSubs
    /\ control_subscribers' = add_control_subscriber(control_subscribers, widget)
    /\ last' = Call("add_control_subscriber", <<widget>>, "None", None, <<>>)
    /\ UNCHANGED <<dmVars, dataset_subscribers, listeners, control_requested,
                   faVars, loader_calls>>

BroadcastControlChanges(raising) ==
    \E r \in {broadcast_control_changes(control_subscribers, listeners,
                                        raising)} :
        /\ listeners' = r.listeners
        /\ last' = Call("broadcast_control_changes", <<>>, Ret(r.raised), None,
                        r.events)
        /\ UNCHANGED <<dmVars, dataset_subscribers, control_subscribers,
                       control_requested, faVars, loader_calls>>

SetActive(w, b, raising) ==
    \E r \in {set_active(listeners, w, b, raising)} :
        /\ listeners' = r.listeners
        /\ last' = Call("set_active", <<w, b>>, Ret(r.raised), None, r.events)
        /\ UNCHANGED <<dmVars, dataset_subscribers, control_subscribers,
                       control_requested, faVars, loader_calls>>

\* AxesConfigWidget.apply_changes (widgets.py 339-359): after writing the
\* plot's local controls it calls mp_widget._render_widget() itself, with no
\* test of is_active() or is_current.
apply_changes(ls, w, raising) == render_widget(ls, w, raising)

ApplyChanges(w, raising) ==
    \E r \in {apply_changes(listeners, w, raising)} :
        /\ listeners' = r.listeners
        /\ last' = Call("apply_changes", <<w>>, Ret(r.raised), None, r.events)
        /\ UNCHANGED <<dmVars, dataset_subscribers, control_subscribers,
                       control_requested, faVars, loader_calls>>

----------------------------------------------------------------------------
(* BHControlState (base.py 48-85): _parameters is a function from the       *)
(* parameter names present to their values.                                 *)

ControlParams == {"frequency", "amplitude"}
ControlValues == {1, 2, 3}

\* An add_param that keeps the value of a parameter already present.
add_param_KeepsExisting(params, param, val) ==
    IF param \in DOMAIN params THEN params ELSE DictSet(params, param, val)

\* BHControlState.add_param (base.py 61-63)
add_param(params, param, val) == DictSet(params, param, val)

\* BHControlState.has_param (base.py 65-67)
has_param(params, param) == param \in DOMAIN params

\* BHControlState.get_param (base.py 69-70): KeyError when param is absent
get_param(params, param) ==
    IF param \in DOMAIN params
    THEN [raised |-> FALSE, value |-> Some(params[param])]
    ELSE [raised |-> TRUE, value |-> None]

\* An update_param that creates the parameter whatever the flag says.
update_param_AlwaysCreates(params, param, val, add_if_missing) ==
    add_param(params, param, val)

\* BHControlState.update_param (base.py 72-82)
update_param(params, param, val, add_if_missing) ==
    IF ~has_param(params, param)
    THEN IF add_if_missing THEN add_param(params, param, val) ELSE params
    ELSE DictSet(params, param, val)

AddParam(param, val) ==
    /\ control_requested' = add_param(control_requested, param, val)
    /\ last' = Call("add_param", <<param, val>>, "None", None, <<>>)
    /\ UNCHANGED <<dmVars, dataset_subscribers, control_subscribers, listeners,
                   faVars, loader_calls>>

HasParam(param) ==
    /\ last' = Call("has_param", <<param>>,
                    IF has_param(control_requested, param) THEN "True"
                    ELSE "False", None, <<>>)
    /\ UNCHANGED <<dmVars, mwVars, faVars, loader_calls>>

GetParam(param) ==
    \E r \in {get_param(control_requested, param)} :
        /\ last' = Call("get_param", <<param>>,
                        IF r.raised THEN "raise" ELSE "value", r.value, <<>>)
        /\ UNCHANGED <<dmVars, mwVars, faVars, loader_calls>>

UpdateParam(param, val, add_if_missing) ==
    /\ control_requested' =
          update_param(control_requested, param, val, add_if_missing)
    /\ last' = Call("update_param", <<param, val, add_if_missing>>, "None",
                    None, <<>>)
    /\ UNCHANGED <<dmVars, dataset_subscribers, control_subscribers, listeners,
                   faVars, loader_calls>>

----------------------------------------------------------------------------
(* A control broadcast whose renders call back into the window.  A          *)
(* custom_render_func is user code and may call                             *)
(* main_window.broadcast_control_changes(); `reentrant` is the set of plots *)
(* whose function does.  depth counts the broadcasts in progress; the       *)
(* interpreter refuses the call that would exceed RecursionLimit            *)
(* (RecursionError).                                                        *)

RecursionLimit == 3   \* broadcasts the interpreter lets nest

ReentrantSets == SUBSET Renderers

\* A broadcast that returns at once when another one is in progress.
BroadcastRuns_OnlyOutermost(depth) == depth = 1

\* base.py 643-647: the loop runs whatever call is already in progress.
BroadcastRuns(depth) == TRUE

RECURSIVE broadcast_nested(_, _, _, _, _)
\* broadcast_control_changes (base.py 643-647) over the subscribers `rest`
\* still to visit, with _get_update (127-135), _ensure_current (137-142)
\* and BHMultiPlotWidget._render_widget (widgets.py 169-191) in line:
\* is_current = True is the last statement of the render, after
\* custom_render_func has returned.
broadcast_nested(all, rest, ls, reentrant, depth) ==
    IF depth > RecursionLimit
    THEN [listeners |-> ls, raised |-> TRUE,
          events |-> <<RaiseEvent("RecursionError", depth)>>]
    ELSE IF rest = <<>> \/ ~BroadcastRuns(depth)
    THEN [listeners |-> ls, raised |-> FALSE, events |-> <<>>]
    ELSE
        LET w == Head(rest)
            stale == [ls EXCEPT ![w].is_current = FALSE]
            got == <<Event("_get_update", w, depth)>>
        IN  IF EnsureCurrentRenders(stale[w]) /\ w \in reentrant
            THEN LET inner == broadcast_nested(all, all, stale, reentrant,
                                               depth + 1)
                     entered == <<Event("custom_render_func", w, depth)>>
                 IN  IF inner.raised
                     THEN [listeners |-> inner.listeners, raised |-> TRUE,
                           events |-> got \o entered \o inner.events]
                     ELSE LET done == [inner.listeners EXCEPT
                                           ![w].is_current = TRUE]
                              next == broadcast_nested(all, Tail(rest), done,
                                                       reentrant, depth)
                          IN  [listeners |-> next.listeners,
                               raised |-> next.raised,
                               events |-> got \o entered \o inner.events
                                          \o next.events]
            ELSE LET r == ensure_current(stale, w, {})
                     next == broadcast_nested(all, Tail(rest), r.listeners,
                                              reentrant, depth)
                 IN  [listeners |-> next.listeners, raised |-> next.raised,
                      events |-> got \o r.events \o next.events]

BroadcastNested(reentrant) ==
    \E r \in {broadcast_nested(control_subscribers, control_subscribers,
                                listeners, reentrant, 1)} :
        /\ listeners' = r.listeners
        /\ last' = Call("broadcast_control_changes", <<reentrant>>,
                        Ret(r.raised), None, r.events)
        /\ UNCHANGED <<dmVars, dataset_subscribers, control_subscribers,
                       control_requested, faVars, loader_calls>>

----------------------------------------------------------------------------
(* BHControllerWidget.broadcaster (base.py 155-163) and the handler it      *)
(* wraps in the library, BHSliderWidget.update (widgets.py 597-608).  The   *)
(* slider is the receiver of the call: update reads its control_parameter,  *)
(* step_size and _slider_freeze and assigns none of them.                   *)

StepSizes == {1, 2}
SliderPositions == {1, 2}

\* BHSliderWidget.__init__ (widgets.py 386-401); _slider_freeze is true
\* while set_step repositions the slider (widgets.py 544-546).
BHSliderWidget ==
    [control_parameter : ControlParams, step_size : StepSizes,
     _slider_freeze : BOOLEAN]

\* An update that asks update_param to create a missing parameter.
update_AddsIfMissing(self, params, new_slider_pos) ==
    IF self._slider_freeze
    THEN [control_requested |-> params, raised |-> FALSE, events |-> <<>>]
    ELSE LET val == new_slider_pos * self.step_size
             after == update_param(params, self.control_parameter, val, TRUE)
         IN  [control_requested |-> after, raised |-> FALSE,
              events |-> <<Event("_update_val_label", self.control_parameter, val),
                           Event("update_param", self.control_parameter, after)>>]

\* BHSliderWidget.update, the wrapped body (widgets.py 598-607)
\* [control_requested, raised, events]
update(self, params, new_slider_pos) ==
    IF self._slider_freeze
    THEN [control_requested |-> params, raised |-> FALSE, events |-> <<>>]
    ELSE LET val == new_slider_pos * self.step_size
             after == update_param(params, self.control_parameter, val, FALSE)
         IN  [control_requested |-> after, raised |-> FALSE,
              events |-> <<Event("_update_val_label", self.control_parameter, val),
                           Event("update_param", self.control_parameter, after)>>]

\* What a handler written by the user of the library can do.
HandlerOutcomes == {"returns", "raises"}

\* func(self, *args, **kwargs) at base.py 161 for a user's handler
handler(outcome, params) ==
    IF outcome = "raises"
    THEN [control_requested |-> params, raised |-> TRUE,
          events |-> <<RaiseEvent("handler", "user")>>]
    ELSE [control_requested |-> params, raised |-> FALSE,
          events |-> <<Event("handler", "user", 0)>>]

\* A wrapper that broadcasts in a finally clause.
broadcaster_AlsoAfterRaise(h, subs, ls, raising) ==
    LET b == broadcast_control_changes(subs, ls, raising)
    IN  [control_requested |-> h.control_requested,
         listeners |-> b.listeners, raised |-> h.raised \/ b.raised,
         events |-> h.events
                    \o <<Event("broadcast_control_changes", "main_window",
                                h.control_requested)>>
                    \o b.events]

\* wrapper (base.py 160-162): func, then broadcast_control_changes; h is
\* what func did.  The broadcast event records control_requested as the
\* subscribers find it.
broadcaster(h, subs, ls, raising) ==
    IF h.raised
    THEN [control_requested |-> h.control_requested, listeners |-> ls,
          raised |-> TRUE, events |-> h.events]
    ELSE LET b == broadcast_control_changes(subs, ls, raising)
         IN  [control_requested |-> h.control_requested,
              listeners |-> b.listeners, raised |-> b.raised,
              events |-> h.events
                         \o <<Event("broadcast_control_changes", "main_window",
                                     h.control_requested)>>
                         \o b.events]

Update(self, new_slider_pos, raising) ==
    \E r \in {broadcaster(update(self, control_requested, new_slider_pos),
                           control_subscribers, listeners, raising)} :
        /\ control_requested' = r.control_requested
        /\ listeners' = r.listeners
        /\ last' = Call("update", <<self, new_slider_pos>>, Ret(r.raised),
                        None, r.events)
        /\ UNCHANGED <<dmVars, dataset_subscribers, control_subscribers,
                       faVars, loader_calls>>

Handler(outcome, raising) ==
    \E r \in {broadcaster(handler(outcome, control_requested),
                           control_subscribers, listeners, raising)} :
        /\ control_requested' = r.control_requested
        /\ listeners' = r.listeners
        /\ last' = Call("handler", <<outcome>>, Ret(r.raised), None, r.events)
        /\ UNCHANGED <<dmVars, dataset_subscribers, control_subscribers,
                       faVars, loader_calls>>

----------------------------------------------------------------------------
(* FileAnalyzerWidget, FileAnalyzerFileTab and FileAnalyzerWorker           *)
(* (widgets.py 765-956).  A task is one QThread with its worker; the        *)
(* finished signal crosses from the worker's thread to the UI thread, so an *)
(* emitted signal waits in `signals` until the UI thread handles it.        *)

MaxTasks == 2   \* threads started per tab

Files == {"a.csv", "b.csv"}

\* analysis_function: absent, or user code
AnalysisFunctions == {"None", "given"}

\* dicts an analysis function may return; "{}" is the empty dict
Mappings == {"{}", "{peak: 1}"}

\* What analysis_function(file) does: returns (msg, dict), returns
\* (msg, something that is no dict), returns something that does not unpack
\* into two values (None, say), or raises.
RunOutcomes ==
    {[kind |-> "mapping", data |-> d] : d \in Mappings}
    \cup {[kind |-> k, data |-> "{}"] : k \in {"non_mapping", "not_a_pair", "raises"}}

\* What plot_function(data, file) does.
PlotOutcomes == {"figures", "None", "raises"}

\* FileAnalyzerFileTab.__init__ (widgets.py 797-821)
FileAnalyzerFileTab(analysis_function, file) ==
    [analysis_function |-> analysis_function, file |-> file,
     thread |-> None, worker |-> None, thead |-> "unset",
     data |-> "{}", figs |-> "[]", _is_active |-> TRUE, is_current |-> FALSE]

\* FileAnalyzerFileTab.plot (widgets.py 823-858): [tab, events].  The event
\* carries what the tab held when plot_function was called.
plot(t, po) ==
    [tab |-> IF po = "raises" THEN t ELSE [t EXCEPT !.figs = po],
     events |-> <<Event("plot_function", t.file,
                        [data |-> t.data, thread |-> t.thread,
                         worker |-> t.worker, outcome |-> po])>>]

TasksOf(ts, file) == {i \in 1 .. Len(ts) : ts[i].file = file}

\* A process() that starts a thread whatever the handle says.
ThreadIsIdle_Always(t) == TRUE

\* widgets.py 874: if self.thread is None
ThreadIsIdle(t) == t.thread = None

\* FileAnalyzerFileTab.process (widgets.py 860-889): [tab, tasks, events]
process(t, ts, po) ==
    IF t.analysis_function = "None"
    THEN LET r == plot(t, po)
         IN  [tab |-> r.tab, tasks |-> ts, events |-> r.events]
    ELSE IF ThreadIsIdle(t)
    THEN [tab |-> [t EXCEPT !.thread = Some(Len(ts) + 1),
                            !.worker = Some(Len(ts) + 1)],
          tasks |-> Append(ts, [file |-> t.file, status |-> "running"]),
          events |-> <<Event("thread.start", t.file, Len(ts) + 1)>>]
    ELSE [tab |-> t, tasks |-> ts, events |-> <<>>]

\* FileAnalyzerWorker.run (widgets.py 778-793): [raised, events, emitted].
\* The except branch reads self.main_window, which a worker does not have:
\* the AttributeError leaves run before finished.emit.
run(task, outcome) ==
    IF outcome.kind \in {"raises", "not_a_pair"}
    THEN [raised |-> TRUE, emitted |-> <<>>,
          events |-> <<RaiseEvent("AttributeError", task)>>]
    ELSE LET sig == IF outcome.kind = "mapping"
                    THEN [task |-> task, success |-> TRUE, data |-> outcome.data]
                    ELSE [task |-> task, success |-> FALSE, data |-> "{}"]
         IN  [raised |-> FALSE, emitted |-> <<sig>>,
              events |-> <<Event("finished.emit", task, sig)>>]

\* What analysis_finished does to the tab's handles (widgets.py 901-904):
\* the assignment at 903 is to `thead`.
ClearHandles(t) == [t EXCEPT !.thead = "None", !.worker = None]

\* An analysis_finished that plots before it stores the signal's data.
analysis_finished_PlotsFirst(t, sig, po) ==
    LET r == plot(ClearHandles(t), po)
    IN  [tab |-> [r.tab EXCEPT !.data = sig.data],
         events |-> <<Event("thread.quit", t.file, sig.task)>> \o r.events]

\* FileAnalyzerFileTab.analysis_finished (widgets.py 891-906): [tab, events]
analysis_finished(t, sig, po) ==
    LET t1 == ClearHandles([t EXCEPT !.data = sig.data])
        r == plot(t1, po)
    IN  [tab |-> r.tab,
         events |-> <<Event("thread.quit", t.file, sig.task)>> \o r.events]

\* FileAnalyzerWidget.analyze_file (widgets.py 940-947): a new tab for the
\* file, processed at once.
AnalyzeFile(file, af, po) ==
    /\ file \notin DOMAIN file_tabs
    /\ \E r \in {process(FileAnalyzerFileTab(af, file), tasks, po)} :
        /\ file_tabs' = DictSet(file_tabs, file, r.tab)
        /\ tasks' = r.tasks
        /\ last' = Call("analyze_file", <<file>>, "None", None, r.events)
    /\ UNCHANGED <<dmVars, mwVars, signals, loader_calls>>

\* process() called again on a tab that exists
Process(file, po) ==
    /\ file \in DOMAIN file_tabs
    /\ Cardinality(TasksOf(tasks, file)) < MaxTasks
    /\ \E r \in {process(file_tabs[file], tasks, po)} :
        /\ file_tabs' = [file_tabs EXCEPT ![file] = r.tab]
        /\ tasks' = r.tasks
        /\ last' = Call("process", <<file>>, "None", None, r.events)
    /\ UNCHANGED <<dmVars, mwVars, signals, loader_calls>>

\* The worker's thread runs FileAnalyzerWorker.run (thread.started, 879).
WorkerRun(task, outcome) ==
    /\ task \in 1 .. Len(tasks)
    /\ tasks[task].status = "running"
    /\ \E r \in {run(task, outcome)} :
        /\ tasks' = [tasks EXCEPT ![task].status =
                        IF r.raised THEN "crashed" ELSE "emitted"]
        /\ signals' = signals \o r.emitted
        /\ last' = Call("run", <<task, outcome>>, Ret(r.raised), None, r.events)
    /\ UNCHANGED <<dmVars, mwVars, file_tabs, loader_calls>>

\* The UI thread's event loop delivers the oldest finished signal to
\* analysis_finished (connected at 878).
AnalysisFinished(po) ==
    /\ signals # <<>>
    /\ LET sig == Head(signals)
           file == tasks[sig.task].file
       IN  \E r \in {analysis_finished(file_tabs[file], sig, po)} :
            /\ file_tabs' = [file_tabs EXCEPT ![file] = r.tab]
            /\ tasks' = [tasks EXCEPT ![sig.task].status = "quit"]
            /\ signals' = Tail(signals)
            /\ last' = Call("analysis_finished", <<file, sig>>, "None", None,
                            r.events)
    /\ UNCHANGED <<dmVars, mwVars, loader_calls>>

\* BHMainWindow.broadcast_dataset_changes (base.py 657-661) called on the
\* window, as the manager's callback does (base.py 617).
BroadcastDatasetChanges ==
    /\ broadcast_callback # "None"
    /\ \E r \in {broadcast_dataset_changes(1, dataset_subscribers, loaded_data,
                                           active_datasets,
                                           expected_file_parameters)} :
        last' = Call("broadcast_dataset_changes", <<>>, Ret(AnyRaised(r)),
                     None, r)
    /\ UNCHANGED <<dmVars, mwVars, faVars, loader_calls>>

----------------------------------------------------------------------------
(* Configurations *)

ParamKeys == {"freq", "power"}

SrcKeys == {"file_path", "parameters", "valid_active_set_indices"}
OrgKeys == {"layer", "group_parameters", "include_all_option"}
Sections == {"dir_abbrev", "data_sources", "organization_structure"}

SrcDict(keys, file_path, parameters) ==
    [keys |-> keys, file_path |-> file_path, parameters |-> parameters]

\* Records of a data_sources section: complete ones over every subset of the
\* parameter names, one whose path uses the abbreviation "DATA", one with an
\* empty path, and one per missing key.
SrcDicts ==
    {SrcDict(SrcKeys, <<"dir", "f.csv">>, [p \in ks |-> 1]) : ks \in SUBSET ParamKeys}
    \cup {SrcDict(SrcKeys, <<"DATA", "f.csv">>, [p \in ParamKeys |-> 1]),
          SrcDict(SrcKeys, <<>>, [p \in ParamKeys |-> 1])}
    \cup {SrcDict(SrcKeys \ {k}, <<"dir", "f.csv">>,
                  IF k = "parameters" THEN EmptyMap ELSE [p \in ParamKeys |-> 1])
            : k \in SrcKeys}

OrgDict(keys, layer) ==
    [keys |-> keys, layer |-> layer, group_parameters |-> <<"freq">>,
     include_all_option |-> FALSE]

OrgDicts ==
    {OrgDict(OrgKeys, l) : l \in 0 .. MaxLayerIdx}
    \cup {OrgDict(OrgKeys \ {"include_all_option"}, 0)}

AbbrevEntry(keys, shortcut, expanded) ==
    [keys |-> keys, shortcut |-> shortcut, expanded |-> expanded]

\* dir_abbrev sections: none, "DATA" -> data, a "DATA" that expands to itself,
\* and an entry without 'expanded' after a good one.
AbbrevSections ==
    {<<>>,
     <<AbbrevEntry({"shortcut", "expanded"}, "DATA", <<"data">>)>>,
     <<AbbrevEntry({"shortcut", "expanded"}, "DATA", <<"DATA">>)>>,
     <<AbbrevEntry({"shortcut", "expanded"}, "DATA", <<"data">>),
       AbbrevEntry({"shortcut"}, "X", <<>>)>>}

SeqsUpTo(S, n) == UNION {[1 .. k -> S] : k \in 0 .. n}

Conf(readable, sections, dir_abbrev, data_sources, organization_structure) ==
    [readable |-> readable, sections |-> sections, dir_abbrev |-> dir_abbrev,
     data_sources |-> data_sources,
     organization_structure |-> organization_structure]

GoodSrc == SrcDict(SrcKeys, <<"dir", "f.csv">>, [p \in ParamKeys |-> 1])

\* A well-formed configuration of n data sources and one layer.
GoodConf(n) ==
    Conf(TRUE, Sections, <<>>, [i \in 1 .. n |-> GoodSrc],
         <<OrgDict(OrgKeys, 0)>>)

\* Configurations that vary the data_sources and dir_abbrev sections.
ConfigsSrc ==
    {Conf(TRUE, Sections, ab, ds, <<OrgDict(OrgKeys, 0)>>) :
        ab \in AbbrevSections, ds \in SeqsUpTo(SrcDicts, MaxSources)}

\* Configurations that vary the organization_structure section.
ConfigsOrg ==
    {Conf(TRUE, Sections, <<>>, ds, os) :
        ds \in {<<>>, <<GoodSrc>>}, os \in SeqsUpTo(OrgDicts, MaxLayers)}

\* An unreadable file, and files that lack a section.
ConfigsBroken ==
    {Conf(FALSE, Sections, <<>>, <<GoodSrc>>, <<OrgDict(OrgKeys, 0)>>)}
    \cup {Conf(TRUE, Sections \ {s}, <<>>, <<GoodSrc>>, <<OrgDict(OrgKeys, 0)>>)
            : s \in Sections}

Configs == ConfigsSrc \cup ConfigsOrg \cup ConfigsBroken

Args(filename, filepath, user_abbrevs) ==
    [filename |-> filename, filepath |-> filepath, user_abbrevs |-> user_abbrevs]

\* load_configuration("conf.json"), as sine_example.py 120 calls it
ByFilename == Args(TRUE, None, EmptyMap)

\* load_configuration(filepath=["HOME", "conf.json"], user_abbrevs={"HOME": ["home"]})
ByFilepath == Args(FALSE, Some(<<"HOME", "conf.json">>), [a \in {"HOME"} |-> <<"home">>])

\* load_configuration(): neither filename nor filepath
NoLocation == Args(FALSE, None, EmptyMap)

\* load_configuration(filepath=[]): os.path.join() of no segment
EmptyFilepath == Args(FALSE, Some(<<>>), EmptyMap)

\* a user abbreviation that expands to itself
CyclicFilepath == Args(FALSE, Some(<<"HOME", "conf.json">>), [a \in {"HOME"} |-> <<"HOME">>])

ArgsSet == {ByFilename, ByFilepath, NoLocation, EmptyFilepath, CyclicFilepath}

----------------------------------------------------------------------------
(* Construction and the specifications *)

\* No FileAnalyzerFileTab has been constructed.
NoFileTab ==
    /\ file_tabs = EmptyMap
    /\ tasks = <<>>
    /\ signals = <<>>

\* BHDatasetManager.__init__ (base.py 249-275), before any main window exists
Fresh(lf) ==
    /\ expected_file_parameters = {}
    /\ abbrevs = EmptyMap
    /\ loaded_data = <<>>
    /\ active_datasets = EmptyMap
    /\ sources_info = <<>>
    /\ org_structure = <<>>
    /\ load_function = lf
    /\ broadcast_callback = "None"
    /\ dataset_subscribers = <<>>
    /\ control_subscribers = <<>>
    /\ listeners = <<>>
    /\ loader_calls = [u \in UniqueIds |-> 0]
    /\ control_requested = EmptyMap
    /\ NoFileTab

Init ==
    /\ Fresh("returns_dataset")
    /\ last = Call("BHDatasetManager.__init__", <<>>, "None", None, <<>>)

\* load_configuration has not been called yet.
Unloaded == last.op = "BHDatasetManager.__init__"

\* load_configuration, called once on the manager just built
\* (sine_example.py 119-120).
LoadConfiguration(args, conf) ==
    /\ Unloaded
    /\ \E r \in {load_configuration(abbrevs, expected_file_parameters,
                                     sources_info, org_structure, args, conf)} :
        /\ abbrevs' = r.abbrevs
        /\ expected_file_parameters' = r.expected_file_parameters
        /\ sources_info' = r.sources_info
        /\ org_structure' = r.org_structure
        /\ last' = Call("load_configuration", <<args, conf>>, r.ret, None, <<>>)
        /\ UNCHANGED <<loaded_data, active_datasets, load_function,
                       broadcast_callback, mwVars, faVars, loader_calls>>

Next ==
    /\ Unloaded
    /\ \E conf \in Configs, args \in ArgsSet : LoadConfiguration(args, conf)

\* The configuration loader on a manager just built.
Spec == Init /\ [][Next]_vars

\* A manager whose configuration of 0..MaxSources sources was loaded once.
InitDM ==
    \E lf \in LoadFunctions, n \in 0 .. MaxSources :
        LET r == load_configuration(EmptyMap, {}, <<>>, <<>>, ByFilename,
                                    GoodConf(n))
        IN  /\ expected_file_parameters = r.expected_file_parameters
            /\ abbrevs = r.abbrevs
            /\ loaded_data = <<>>
            /\ active_datasets = EmptyMap
            /\ sources_info = r.sources_info
            /\ org_structure = r.org_structure
            /\ load_function = lf
            /\ broadcast_callback = "None"
            /\ dataset_subscribers = <<>>
            /\ control_subscribers = <<>>
            /\ listeners = <<>>
            /\ loader_calls = [u \in UniqueIds |-> 0]
            /\ control_requested = EmptyMap
            /\ NoFileTab
            /\ last = Call("load_configuration", <<ByFilename, GoodConf(n)>>,
                           r.ret, None, <<>>)

NextDM ==
    \/ \E u \in UniqueIds, s \in Slots : SetActiveDataset(u, s)
    \/ \E s \in Slots : GetActive(s)
    \/ BHMainWindowInit
    \/ \E kind \in CallbackKinds : AddDatasetSubscriber(kind)

\* The dataset manager in use: activation, lookup, and the dataset broadcast.
SpecDM == InitDM /\ [][NextDM]_vars

\* A main window built on a new manager (pioneer.py 116-118) with its
\* listener widgets constructed: BHMultiPlotWidget.__init__ ends with a
\* render (widgets.py 130), FileAnalyzerWidget.__init__ does not render.
InitBC ==
    /\ expected_file_parameters = {}
    /\ abbrevs = EmptyMap
    /\ loaded_data = <<>>
    /\ active_datasets = EmptyMap
    /\ sources_info = <<>>
    /\ org_structure = <<>>
    /\ load_function = "returns_dataset"
    /\ broadcast_callback = "broadcast_dataset_changes"
    /\ dataset_subscribers = <<>>
    /\ control_subscribers = <<>>
    /\ listeners = [w \in Widgets |->
                      render_widget([x \in Widgets |-> BHListenerWidget], w,
                                    {}).listeners[w]]
    /\ loader_calls = [u \in UniqueIds |-> 0]
    /\ control_requested = EmptyMap
    /\ NoFileTab
    /\ last = Call("BHMainWindow.__init__", <<>>, "None", None, <<>>)

NextBC ==
    \/ \E w \in Widgets : AddControlSubscriber(w)
    \/ \E raising \in RaisingSets : BroadcastControlChanges(raising)
    \/ \E w \in Widgets, b \in BOOLEAN, raising \in RaisingSets :
          SetActive(w, b, raising)
    \/ \E w \in Renderers, raising \in RaisingSets : ApplyChanges(w, raising)

\* The control channel: registration, broadcast, tabs switching listeners
\* on and off, and the axes dialog of a plot.
SpecBC == InitBC /\ [][NextBC]_vars

NextSL ==
    \/ \E param \in ControlParams, val \in ControlValues : AddParam(param, val)
    \/ \E w \in Widgets : AddControlSubscriber(w)
    \/ \E self \in BHSliderWidget, new_slider_pos \in SliderPositions,
          raising \in RaisingSets : Update(self, new_slider_pos, raising)
    \/ \E outcome \in HandlerOutcomes, raising \in RaisingSets :
          Handler(outcome, raising)

\* Controller widgets: handlers wrapped by broadcaster, driving the control
\* state and the control channel.
SpecSL == InitBC /\ [][NextSL]_vars

NextRE ==
    \/ \E w \in Widgets : AddControlSubscriber(w)
    \/ \E w \in Widgets, b \in BOOLEAN : SetActive(w, b, {})
    \/ \E reentrant \in ReentrantSets : BroadcastNested(reentrant)

\* The control channel with render functions that broadcast.
SpecRE == InitBC /\ [][NextRE]_vars

NextBR ==
    \/ \E w \in Widgets : AddControlSubscriber(w)
    \/ \E kind \in CallbackKinds : AddDatasetSubscriber(kind)
    \/ \E raising \in RaisingSets : BroadcastControlChanges(raising)
    \/ BroadcastDatasetChanges

\* Both broadcast channels of a main window, with subscribers that may raise.
SpecBR == InitBC /\ [][NextBR]_vars

\* A BHControlState just constructed (base.py 55-59), as BHMainWindow builds
\* its control_requested (base.py 618).
InitCS ==
    /\ Fresh("returns_dataset")
    /\ last = Call("BHControlState.__init__", <<>>, "None", None, <<>>)

NextCS ==
    \/ \E p \in ControlParams, v \in ControlValues : AddParam(p, v)
    \/ \E p \in ControlParams : HasParam(p)
    \/ \E p \in ControlParams : GetParam(p)
    \/ \E p \in ControlParams, v \in ControlValues, b \in BOOLEAN :
          UpdateParam(p, v, b)

\* The control state under its four methods.
SpecCS == InitCS /\ [][NextCS]_vars

\* A FileAnalyzerWidget just constructed (widgets.py 915-930), before any file
\* is dropped on it.
InitFA ==
    /\ Fresh("returns_dataset")
    /\ last = Call("FileAnalyzerWidget.__init__", <<>>, "None", None, <<>>)

NextFA ==
    \/ \E f \in Files, af \in AnalysisFunctions, po \in PlotOutcomes :
          AnalyzeFile(f, af, po)
    \/ \E f \in Files, po \in PlotOutcomes : Process(f, po)
    \/ \E t \in 1 .. Len(tasks), o \in RunOutcomes : WorkerRun(t, o)
    \/ \E po \in PlotOutcomes : AnalysisFinished(po)

\* File analysis: the UI thread, the worker threads and the signals between.
SpecFA == InitFA /\ [][NextFA]_vars

----------------------------------------------------------------------------
(* Claims about the dataset manager (SpecDM) *)

InCache(u) == \E i \in 1 .. Len(loaded_data) : loaded_data[i].unique_id = u
InCatalog(u) == \E i \in 1 .. Len(sources_info) : sources_info[i].unique_id = u
CopiesInCache(u) ==
    Cardinality({i \in 1 .. Len(loaded_data) : loaded_data[i].unique_id = u})

\* The unique_id get_active(s) resolves to, -1 for None.
ActiveId(ld, ad, s) ==
    IF get_active(ld, ad, s) = None THEN -1 ELSE get_active(ld, ad, s)[1].unique_id

IsSetActive(c) == c.op = "set_active_dataset"
HasEvent(c, ev) == \E i \in 1 .. Len(c.events) : c.events[i].ev = ev

\* C1: with a loader that returns a Dataset carrying the source's unique_id,
\* the loader is called at most once per unique_id, exactly once as soon as an
\* activation has named a catalogued id, the cache holds one Dataset per
\* loaded id, and all slots activated with one id resolve to that one cached
\* Dataset.
C1_LoaderOncePerId ==
    load_function = "returns_dataset" =>
        /\ \A u \in UniqueIds :
            /\ loader_calls[u] <= 1
            /\ CopiesInCache(u) = loader_calls[u]
        /\ (IsSetActive(last) /\ last.ret # "False") => loader_calls[last.args[1]] = 1
        /\ \A s1, s2 \in DOMAIN active_datasets :
              ActiveId(loaded_data, active_datasets, s1)
                = ActiveId(loaded_data, active_datasets, s2)
              => active_datasets[s1] = active_datasets[s2]

\* C1 witness: the same unique_id activated a second time, in another slot,
\* without a loader call; both slots resolve to it and the loader ran once.
C1_Witness ==
    /\ IsSetActive(last) /\ last.ret = "True"
    /\ ~HasEvent(last, "load_function")
    /\ loader_calls[last.args[1]] = 1
    /\ \E s1, s2 \in DOMAIN active_datasets :
        /\ s1 # s2
        /\ ActiveId(loaded_data, active_datasets, s1) = last.args[1]
        /\ ActiveId(loaded_data, active_datasets, s2) = last.args[1]

\* C2: a successful set_active_dataset(u, s) makes get_active(s) the Dataset
\* with unique_id u, no call changes what get_active returns for another
\* slot, and nothing but set_active_dataset changes it for any slot; with a
\* 2-entry catalog, slot 1 on id 0 and slot 2 on id 1 took two loader calls.
C2_StepOk ==
    \A s \in Slots :
        IF IsSetActive(last') /\ last'.args[2] = s
        THEN last'.ret = "True"
                => ActiveId(loaded_data', active_datasets', s) = last'.args[1]
        ELSE get_active(loaded_data', active_datasets', s)
                = get_active(loaded_data, active_datasets, s)

C2_Example ==
    (/\ load_function = "returns_dataset"
     /\ Len(sources_info) = 2
     /\ DOMAIN active_datasets = {1, 2}
     /\ ActiveId(loaded_data, active_datasets, 1) = 0
     /\ ActiveId(loaded_data, active_datasets, 2) = 1)
    => loader_calls[0] + loader_calls[1] = 2

C2_SlotsIndependent == [](C2_Example) /\ [][C2_StepOk]_vars

\* C2 witness: the end-to-end example, right after set_active(1, slot 2).
C2_Witness ==
    /\ Len(sources_info) = 2
    /\ IsSetActive(last) /\ last.args = <<1, 2>> /\ last.ret = "True"
    /\ DOMAIN active_datasets = {1, 2}
    /\ get_active(loaded_data, active_datasets, 1)[1].unique_id = 0
    /\ get_active(loaded_data, active_datasets, 2)[1].unique_id = 1
    /\ loader_calls[0] + loader_calls[1] = 2

\* C3: a set_active_dataset call that returned True wrote the slot once, with
\* the index of the Dataset named, and only then invoked the installed
\* callback, once; the callback notified every dataset subscriber once, in
\* order, and every observer read the new Dataset from the slot.  With no
\* callback installed nobody was notified.
C3_WriteThenBroadcastOnce ==
    (IsSetActive(last) /\ last.ret = "True") =>
        LET ev == last.events
            u == last.args[1]
            s == last.args[2]
            w == FirstPos(ev, "write")
            b == FirstPos(ev, "broadcast_callback")
        IN  /\ Len(EventsOf(ev, "write")) = 1
            /\ ev[w].who = s
            /\ loaded_data[ev[w].what + 1].unique_id = u
            /\ active_datasets[s] = ev[w].what
            /\ IF broadcast_callback = "None"
               THEN /\ b = 0
                    /\ ~HasEvent(last, "_dataset_changed")
               ELSE /\ Len(EventsOf(ev, "broadcast_callback")) = 1
                    /\ w < b
                    /\ Len(ev) = b + Len(dataset_subscribers)
                    /\ \A k \in 1 .. Len(dataset_subscribers) :
                        /\ ev[b + k].ev = "_dataset_changed"
                        /\ ev[b + k].who = k
                        /\ dataset_subscribers[k] = "observer"
                            => ev[b + k].what[s] = u

\* C3 witness: the already-cached path taken with an observer subscribed, the
\* slot having held another Dataset before.
C3_Witness ==
    /\ IsSetActive(last) /\ last.ret = "True"
    /\ ~HasEvent(last, "load_function")
    /\ \E k \in 1 .. Len(dataset_subscribers) : dataset_subscribers[k] = "observer"
    /\ Len(loaded_data) = 2

\* C4: set_active_dataset with a unique_id in neither cache nor catalog
\* returns False, leaves cache, catalog, slot map and loader count unchanged
\* and does nothing else (no loader call, no broadcast).
C4_StepOk ==
    (IsSetActive(last') /\ ~InCache(last'.args[1]) /\ ~InCatalog(last'.args[1]))
    => /\ last'.ret = "False"
       /\ last'.events = <<>>
       /\ UNCHANGED <<loaded_data, sources_info, active_datasets, loader_calls>>

C4_UnknownIdFails == [][C4_StepOk]_vars

\* C4 witness: a failed activation on a manager that has a Dataset cached, a
\* slot active and a subscriber registered.
C4_Witness ==
    /\ IsSetActive(last) /\ last.ret = "False"
    /\ ~InCatalog(last.args[1])
    /\ Len(loaded_data) > 0
    /\ last.args[2] \notin DOMAIN active_datasets
    /\ DOMAIN active_datasets # {}
    /\ dataset_subscribers # <<>>

\* C5: get_active changes nothing and does nothing but return; it returns
\* None for a slot that is not in the slot map, and a slot enters the slot
\* map only through a set_active_dataset call on it that found its unique_id.
C5_StepOk ==
    /\ last'.op = "get_active" =>
        /\ UNCHANGED <<dmVars, mwVars, loader_calls>>
        /\ last'.events = <<>>
        /\ last'.args[1] \notin DOMAIN active_datasets
            => (last'.ret = "None" /\ last'.value = None)
    /\ \A s \in (DOMAIN active_datasets') \ (DOMAIN active_datasets) :
        /\ IsSetActive(last') /\ last'.args[2] = s /\ last'.ret # "False"
        /\ InCatalog(last'.args[1])

----------------------------------------------------------------------------
(* Claims about the control broadcast and listeners (specification SpecBC)  *)

IsBroadcast(c) == c.op = "broadcast_control_changes"
Targets(events, ev) ==
    [i \in 1 .. Len(EventsOf(events, ev)) |-> EventsOf(events, ev)[i].who]
CountFor(events, ev, w) ==
    Cardinality({i \in 1 .. Len(events) : events[i].ev = ev /\ events[i].who = w})

\* add_control_subscriber puts the widget at the end of the subscriber list,
\* and no other call changes the list.
C6_StepOk ==
    IF last'.op = "add_control_subscriber"
    THEN control_subscribers' = control_subscribers \o <<last'.args[1]>>
    ELSE control_subscribers' = control_subscribers

\* C6: one call of broadcast_control_changes in which no subscriber raises
\* calls _get_update once per registration, in the order of registration
\* (the subscriber list grows only at its end, by add_control_subscriber); a
\* widget registered once is called exactly once.
C6_BroadcastInRegistrationOrder ==
    /\ []((IsBroadcast(last) /\ last.ret = "None") =>
            /\ Targets(last.events, "_get_update") = control_subscribers
            /\ \A w \in Widgets :
                  CountFor(last.events, "_get_update", w)
                    = Cardinality({i \in 1 .. Len(control_subscribers) :
                                        control_subscribers[i] = w}))
    /\ [][C6_StepOk]_vars

\* A broadcast that returned normally to two different subscribers, the
\* first of which rendered.
C6_Witness ==
    /\ IsBroadcast(last) /\ last.ret = "None"
    /\ Len(control_subscribers) = 2
    /\ control_subscribers[1] # control_subscribers[2]
    /\ Len(EventsOf(last.events, "_get_update")) = 2
    /\ CountFor(last.events, "_render_widget", control_subscribers[1]) = 1

\* After a broadcast, a listener that is inactive and was called is stale
\* and was not rendered.
C7_InactiveStale ==
    IsBroadcast(last) =>
        \A w \in Widgets :
            (~listeners[w]._is_active
                /\ CountFor(last.events, "_get_update", w) > 0)
            => /\ ~listeners[w].is_current
               /\ CountFor(last.events, "_render_widget", w) = 0

\* set_active(False) renders nothing and leaves the listener inactive.
C7_DeactivateRendersNothing ==
    (last.op = "set_active" /\ last.args[2] = FALSE) =>
        /\ last.events = <<>>
        /\ ~listeners[last.args[1]]._is_active

\* set_active(True) on a stale listener invokes its render routine, once and
\* within the call; over broadcasts and set_active calls an inactive
\* listener stays stale until such a call, and none of them renders a
\* listener that is inactive when the call ends.
C7_StepOk ==
    /\ (last'.op = "set_active" /\ last'.args[2] = TRUE
            /\ ~listeners[last'.args[1]].is_current)
        => CountFor(last'.events, "_render_widget", last'.args[1]) = 1
    /\ last'.op \in {"broadcast_control_changes", "set_active"}
        => \A w \in Widgets :
            /\ (~listeners[w]._is_active /\ ~listeners[w].is_current
                    /\ listeners'[w].is_current)
                => (last'.op = "set_active" /\ last'.args = <<w, TRUE>>)
            /\ ~listeners'[w]._is_active
                => CountFor(last'.events, "_render_widget", w) = 0

\* C7: a listener with is_active false that receives _get_update, however
\* often, is stale afterwards and its render routine is not invoked; the
\* render routine is invoked within set_active(True) when the listener is
\* stale; set_active(False) never invokes it.
C7_InactiveListenerDeferred ==
    /\ [](C7_InactiveStale /\ C7_DeactivateRendersNothing)
    /\ [][C7_StepOk]_vars

\* A plot that had been rendered, then deactivated, received _get_update in
\* a broadcast: it is stale and was not rendered, while an active subscriber
\* of the same broadcast was.
C7_Witness ==
    /\ IsBroadcast(last) /\ last.ret = "None"
    /\ \E w \in Renderers :
        /\ ~listeners[w]._is_active
        /\ CountFor(last.events, "_get_update", w) = 1
        /\ CountFor(last.events, "_render_widget", w) = 0
        /\ ~listeners[w].is_current
    /\ \E v \in Renderers : CountFor(last.events, "_render_widget", v) = 1

----------------------------------------------------------------------------
(* Claims about load_configuration (specification Spec)                     *)

IsLoad(c) == c.op = "load_configuration"

\* The call names its file: a filename, or a filepath that expands.
FileLocated(c) ==
    \/ c.args[1].filename
    \/ /\ c.args[1].filepath # None
       /\ expand_path_list(c.args[1].filepath[1], c.args[1].user_abbrevs,
                           RecursionFuel).ok

LoadedConf == last.args[2]
LayersOf(conf) ==
    [k \in 1 .. Len(conf.organization_structure) |->
        conf.organization_structure[k].layer]
IsPermutation(layers) ==
    /\ \A i \in 0 .. (Len(layers) - 1) : \E k \in 1 .. Len(layers) : layers[k] = i
    /\ \A k \in 1 .. Len(layers) : layers[k] \in 0 .. (Len(layers) - 1)
    /\ \A j, k \in 1 .. Len(layers) : layers[j] = layers[k] => j = k

\* C8: after load_configuration returned True on a manager just built, for a
\* configuration of N data-source records, sources_info holds exactly N
\* sources, the i-th of them (from 0) built from the i-th record (its expanded
\* path, its parameter values) and carrying unique_id i.
C8_IdsInFileOrder ==
    (IsLoad(last) /\ last.ret = "True") =>
        LET recs == LoadedConf.data_sources
        IN  /\ Len(sources_info) = Len(recs)
            /\ \A i \in 1 .. Len(sources_info) :
                /\ sources_info[i].unique_id = i - 1
                /\ sources_info[i].file_fullpath =
                      expand_path_list(recs[i].file_path, abbrevs,
                                       RecursionFuel).val
                /\ \A p \in DOMAIN sources_info[i].parameters :
                      /\ p \in DOMAIN recs[i].parameters
                      /\ sources_info[i].parameters[p] = recs[i].parameters[p]
            /\ {sources_info[i].unique_id : i \in 1 .. Len(sources_info)}
                  = 0 .. (Len(recs) - 1)

\* A successful load of two records with different paths: ids 0 and 1 follow
\* the file's order.
C8_Witness ==
    /\ IsLoad(last) /\ last.ret = "True"
    /\ Len(LoadedConf.data_sources) = 2
    /\ Len(sources_info) = 2
    /\ sources_info[1].file_fullpath # sources_info[2].file_fullpath
    /\ sources_info[1].unique_id = 0
    /\ sources_info[2].unique_id = 1

\* A record after the first that has a 'parameters' object lacking a key of
\* the first record's 'parameters'.
OmitsFirstRecordKey(recs) ==
    /\ Len(recs) >= 2
    /\ "parameters" \in recs[1].keys
    /\ \E i \in 2 .. Len(recs) :
        /\ "parameters" \in recs[i].keys
        /\ \E p \in DOMAIN recs[1].parameters : p \notin DOMAIN recs[i].parameters

\* C9: load_configuration returns False for every configuration in which
\* some data-source record omits a parameter key that the first data-source
\* record has.
C9_MissingKeyFails ==
    (IsLoad(last) /\ FileLocated(last)
        /\ OmitsFirstRecordKey(LoadedConf.data_sources)) =>
        last.ret = "False"

\* C10: load_configuration on a manager just built returns True only if the
\* layer indices of the N organization_structure records are a permutation
\* of 0..N-1; a call that names a file whose layers are 0,1,1 (duplicate) or
\* 0,2 (gap), in any order, gets False.
C10_LayersArePermutation ==
    IsLoad(last) =>
        /\ last.ret = "True" => IsPermutation(LayersOf(LoadedConf))
        /\ LET ls == LayersOf(LoadedConf)
               layerset == {ls[k] : k \in 1 .. Len(ls)}
           IN  (FileLocated(last)
                  /\ \/ (Len(ls) = 3 /\ layerset = {0, 1})
                     \/ (Len(ls) = 2 /\ layerset = {0, 2}))
                   => last.ret = "False"

\* A three-layer file listed out of order is accepted, and the manager holds
\* its three layers.
C10_Witness ==
    /\ IsLoad(last) /\ last.ret = "True"
    /\ LayersOf(LoadedConf) = <<2, 0, 1>>
    /\ Len(org_structure) = 3

\* C11: every failing invocation of load_configuration, whatever the stage
\* that fails, returns False: it never raises to the caller (and a call that
\* did not return True left through `return False`).
C11_FailuresReturnFalse ==
    IsLoad(last) => last.ret \in {"True", "False"}

----------------------------------------------------------------------------
(* Claims about BHControlState (specification SpecCS)                       *)

ParamOf(c) == c.args[1]
WritesParam(c, p) == c.op \in {"add_param", "update_param"} /\ ParamOf(c) = p

C12_StepOk ==
    /\ last'.op = "add_param" =>
          /\ has_param(control_requested', last'.args[1])
          /\ get_param(control_requested', last'.args[1])
                = [raised |-> FALSE, value |-> Some(last'.args[2])]
    /\ \A p \in ControlParams :
          (has_param(control_requested, p) /\ ~WritesParam(last', p)) =>
              /\ has_param(control_requested', p)
              /\ get_param(control_requested', p) = get_param(control_requested, p)
    /\ last'.op = "get_param" =>
          /\ last'.value = get_param(control_requested, last'.args[1]).value
          /\ (last'.args[1] \in DOMAIN control_requested) =>
                (last'.ret = "value"
                    /\ last'.value = Some(control_requested[last'.args[1]]))
    /\ last'.op = "has_param" =>
          (last'.ret = "True" <=> last'.args[1] \in DOMAIN control_requested)

\* C12: for every name p and value v, whether or not p was present, after
\* add_param(p, v) get_param(p) returns v and has_param(p) is true, and both
\* stay so across every call that is not an add_param or update_param on p.
C12_AddThenGet == [][C12_StepOk]_vars

\* get_param returned the value an earlier add_param stored, with the other
\* parameter present as well.
C12_Witness ==
    /\ last.op = "get_param" /\ last.ret = "value"
    /\ last.value = Some(3)
    /\ DOMAIN control_requested = ControlParams
    /\ \E p \in ControlParams : control_requested[p] # 3

C13_StepOk ==
    (last'.op = "update_param" /\ last'.args[3] = FALSE
        /\ last'.args[1] \notin DOMAIN control_requested)
    => /\ control_requested' = control_requested
       /\ ~has_param(control_requested', last'.args[1])

\* C13: update_param(p, v) without the create flag, when p is absent, leaves
\* the parameter map as it was: p stays absent and no other value changes.
C13_UpdateAbsentIsNoOp == [][C13_StepOk]_vars

\* update_param without the flag on an absent name, with another parameter
\* present.
C13_Witness ==
    /\ last.op = "update_param" /\ last.args[3] = FALSE
    /\ last.args[1] \notin DOMAIN control_requested
    /\ control_requested # EmptyMap

----------------------------------------------------------------------------
(* Claims about file analysis (specification SpecFA)                        *)

\* A task is outstanding from thread.start() until analysis_finished has
\* handled its signal.
Outstanding(ts, file) == {i \in TasksOf(ts, file) : ts[i].status # "quit"}

C14_AtMostOneOutstanding ==
    \A f \in DOMAIN file_tabs : Cardinality(Outstanding(tasks, f)) <= 1

C14_StepOk ==
    (last'.op = "process" /\ Outstanding(tasks, last'.args[1]) # {})
    => /\ tasks' = tasks
       /\ CountFor(last'.events, "thread.start", last'.args[1]) = 0

\* C14: a FileAnalyzerFileTab has at most one outstanding analysis task at
\* any time; process() called while a task of an earlier process() is
\* outstanding starts no thread and no worker.
C14_SingleOutstandingTask ==
    [](C14_AtMostOneOutstanding) /\ [][C14_StepOk]_vars

\* process() was called on a tab whose task is still running, and started
\* nothing.
C14_Witness ==
    /\ last.op = "process" /\ last.events = <<>>
    /\ \E i \in Outstanding(tasks, last.args[1]) : tasks[i].status = "running"
    /\ file_tabs[last.args[1]].thread # None

\* C15: when analysis_finished has handled the completion signal, the tab's
\* thread and worker handles are None, and they already were when the plot
\* function ran.
C15_HandleClearedBeforePlot ==
    last.op = "analysis_finished" =>
        /\ file_tabs[last.args[1]].thread = None
        /\ file_tabs[last.args[1]].worker = None
        /\ \A i \in 1 .. Len(last.events) :
              last.events[i].ev = "plot_function" =>
                  /\ last.events[i].what.thread = None
                  /\ last.events[i].what.worker = None

\* C16: every run of FileAnalyzerWorker.run emits finished exactly once and
\* returns: success and the mapping when the analysis function returned a
\* mapping, failure and the empty mapping when it returned something else or
\* raised.
C16_FinishedEmittedOnce ==
    last.op = "run" =>
        /\ last.ret = "None"
        /\ Len(EventsOf(last.events, "finished.emit")) = 1
        /\ \A i \in 1 .. Len(last.events) :
              last.events[i].ev = "finished.emit" =>
                  IF last.args[2].kind = "mapping"
                  THEN /\ last.events[i].what.success
                       /\ last.events[i].what.data = last.args[2].data
                  ELSE /\ ~last.events[i].what.success
                       /\ last.events[i].what.data = "{}"

----------------------------------------------------------------------------
(* Invariants of the manager's cache, slot map and catalog                  *)

\* C17: in every reachable state every value of active_datasets is an index
\* into loaded_data (0 <= index < len), so get_active on an activated slot
\* returns the cached Dataset at that index.
C17_SlotsIndexCache ==
    \A s \in DOMAIN active_datasets :
        /\ active_datasets[s] \in 0 .. (Len(loaded_data) - 1)
        /\ get_active(loaded_data, active_datasets, s)
              = Some(loaded_data[active_datasets[s] + 1])

\* Two slots hold the indices of two different cached Datasets.
C17_Witness ==
    /\ Len(loaded_data) = 2
    /\ \E s, t \in DOMAIN active_datasets :
          active_datasets[s] = 0 /\ active_datasets[t] = 1

IsPrefix(a, b) ==
    /\ Len(a) <= Len(b)
    /\ \A i \in 1 .. Len(a) : a[i] = b[i]

Returned(c, ev) ==
    \E i \in 1 .. Len(c.events) : c.events[i].ev = ev /\ ~Raised(c.events[i])

C18_StepOk ==
    /\ IsPrefix(loaded_data, loaded_data')
    /\ Len(loaded_data') <= Len(loaded_data) + 1
    /\ \A u \in UniqueIds : InCache(u) =>
          \E i \in 1 .. Len(loaded_data') : loaded_data'[i].unique_id = u
    /\ (IsSetActive(last') /\ Returned(last', "load_function")) =>
          /\ Len(loaded_data') = Len(loaded_data) + 1
          /\ loaded_data'[Len(loaded_data')].unique_id = last'.args[1]
    /\ ~(IsSetActive(last') /\ Returned(last', "load_function")) =>
          loaded_data' = loaded_data
    /\ sources_info' = sources_info

\* C18: the cache only grows: every step leaves the cached Datasets where
\* they are (none removed, replaced or reordered, so a loaded id stays
\* loaded), a load that returned appends exactly one entry at the end, and
\* set_active_dataset and get_active leave the catalog as it is.
C18_CacheOnlyGrows == [][C18_StepOk]_vars

\* A second Dataset was loaded behind the first, which is still in place.
C18_Witness ==
    /\ IsSetActive(last) /\ Returned(last, "load_function")
    /\ Len(loaded_data) = 2
    /\ loaded_data[1].unique_id # last.args[1]
    /\ loaded_data[2].unique_id = last.args[1]

\* C19: after load_configuration returned True, every source of the catalog
\* has the parameter keys of the file's first data-source record, and
\* expected_file_parameters is that key set.
C19_SameParameterKeys ==
    (IsLoad(last) /\ last.ret = "True" /\ Len(LoadedConf.data_sources) > 0) =>
        LET first == DOMAIN LoadedConf.data_sources[1].parameters
        IN  /\ expected_file_parameters = first
            /\ \A i \in 1 .. Len(sources_info) :
                  DOMAIN sources_info[i].parameters = first

----------------------------------------------------------------------------
(* Partial state after a failed load (specification Spec)                   *)

\* The number of leading elements of seq that satisfy Ok.
LeadingGood(seq, Ok(_)) ==
    CHOOSE k \in 0 .. Len(seq) :
        /\ \A i \in 1 .. k : Ok(seq[i])
        /\ k < Len(seq) => ~Ok(seq[k + 1])

AbbrevReads(ab) == {"shortcut", "expanded"} \subseteq ab.keys
SourceReads(rec) ==
    /\ SrcKeys \subseteq rec.keys
    /\ expand_path_list(rec.file_path, abbrevs, RecursionFuel).ok
LayerReads(rec) == OrgKeys \subseteq rec.keys

\* C21: when load_configuration returns False because a later section
\* fails, what the earlier steps stored stays in the manager: the user's and
\* the file's abbreviations read so far, one catalog entry per data-source
\* record read before the failure, and one layer per organization record
\* read before the failure.
C21_NoRollback ==
    (IsLoad(last) /\ FileLocated(last) /\ last.ret = "False"
        /\ LoadedConf.readable) =>
        LET conf == LoadedConf
            ents == IF "dir_abbrev" \in conf.sections
                    THEN conf.dir_abbrev ELSE <<>>
            recs == IF "data_sources" \in conf.sections
                    THEN conf.data_sources ELSE <<>>
            lays == IF "organization_structure" \in conf.sections
                    THEN conf.organization_structure ELSE <<>>
            abbrevsRead == "dir_abbrev" \in conf.sections
                              /\ LeadingGood(ents, AbbrevReads) = Len(ents)
            sourcesRead == abbrevsRead /\ "data_sources" \in conf.sections
                              /\ LeadingGood(recs, SourceReads) = Len(recs)
        IN  /\ \A a \in DOMAIN last.args[1].user_abbrevs : a \in DOMAIN abbrevs
            /\ \A i \in 1 .. LeadingGood(ents, AbbrevReads) :
                  ents[i].shortcut \in DOMAIN abbrevs
            /\ abbrevsRead =>
                  /\ Len(sources_info) = LeadingGood(recs, SourceReads)
                  /\ \A i \in 1 .. Len(sources_info) :
                        sources_info[i].unique_id = i - 1
            /\ ~abbrevsRead => sources_info = <<>>
            /\ sourcesRead =>
                  /\ Len(org_structure) = LeadingGood(lays, LayerReads)
                  /\ \A i \in 1 .. Len(org_structure) :
                        org_structure[i].layer_idx = lays[i].layer
            /\ ~sourcesRead => org_structure = <<>>

\* A load that failed at its second data-source record: the file's
\* abbreviation and the first record's source are in the manager.
C21_Witness ==
    /\ IsLoad(last) /\ last.ret = "False"
    /\ Len(LoadedConf.data_sources) = 2
    /\ Len(sources_info) = 1
    /\ "DATA" \in DOMAIN abbrevs
    /\ org_structure = <<>>

----------------------------------------------------------------------------
(* Exceptions in a broadcast (specification SpecBR)                         *)

IsDatasetBroadcast(c) == c.op = "broadcast_dataset_changes"
RaisedAt(events) == {i \in 1 .. Len(events) : events[i].raised}

\* C22: when the k-th subscriber raises during a broadcast on either
\* channel, the exception reaches the caller of the broadcast, subscribers
\* 1..k-1 have been notified, and subscribers k+1.. are not notified: the
\* raising call is the last thing the broadcast did.
C22_RaiseAbortsBroadcast ==
    /\ (IsBroadcast(last) \/ IsDatasetBroadcast(last)) =>
          /\ last.ret = "raise" <=> RaisedAt(last.events) # {}
          /\ RaisedAt(last.events) \subseteq {Len(last.events)}
    /\ (IsBroadcast(last) /\ last.ret = "raise") =>
          LET ups == Targets(last.events, "_get_update")
              k == Len(ups)
          IN  /\ k \in 1 .. Len(control_subscribers)
              /\ ups = SubSeq(control_subscribers, 1, k)
              /\ last.events[Len(last.events)].who = control_subscribers[k]
    /\ (IsDatasetBroadcast(last) /\ last.ret = "raise") =>
          LET ups == Targets(last.events, "_dataset_changed")
              k == Len(ups)
          IN  /\ k \in 1 .. Len(dataset_subscribers)
              /\ ups = [i \in 1 .. k |-> i]
              /\ last.events[Len(last.events)].who = k

\* The first of two dataset subscribers raised: the second was not called.
C22_Witness ==
    /\ IsDatasetBroadcast(last) /\ last.ret = "raise"
    /\ Len(dataset_subscribers) = 2
    /\ Len(last.events) = 1
    /\ Len(control_subscribers) = 2

----------------------------------------------------------------------------
(* Listener freshness (base.py 108-148, widgets.py 795-956)                 *)

Subscribed(w) == \E i \in 1 .. Len(control_subscribers) : control_subscribers[i] = w

\* C23: for every listener class, after a control broadcast that returns
\* normally every active subscriber has is_current true and every inactive
\* one has it false, and a listener is current when set_active(True)
\* returns normally.
C23_ActiveListenersCurrent ==
    /\ (IsBroadcast(last) /\ last.ret = "None") =>
            \A w \in Widgets :
                Subscribed(w) => (listeners[w].is_current = listeners[w]._is_active)
    /\ (last.op = "set_active" /\ last.ret = "None" /\ last.args[2] = TRUE) =>
            listeners[last.args[1]].is_current

\* C24: the render routine is entered only from broadcast_control_changes
\* or set_active, through the gate of _ensure_current, with the listener
\* active and stale at that moment.
C24_RenderOnlyThroughGate ==
    \A i \in 1 .. Len(last.events) :
        last.events[i].ev = "_render_widget" =>
            /\ last.op \in {"broadcast_control_changes", "set_active"}
            /\ ~last.events[i].raised =>
                    /\ last.events[i].what._is_active
                    /\ ~last.events[i].what.is_current

----------------------------------------------------------------------------
(* Controller handlers (base.py 155-163, widgets.py 597-608)                *)

IsWrapped(c) == c.op \in {"update", "handler"}
HandlerEvents == {"_update_val_label", "update_param", "handler"}
HandlerRaised(c) ==
    \E i \in 1 .. Len(c.events) : c.events[i].ev \in HandlerEvents /\ c.events[i].raised
BroadcastsIn(c) == Len(EventsOf(c.events, "broadcast_control_changes"))

\* C25: a handler wrapped by broadcaster runs to its end and is followed by
\* exactly one broadcast_control_changes, which reaches every subscriber
\* unless one of them raises, also when the handler returned early (a
\* frozen slider); when the handler raises there is no broadcast and the
\* exception leaves the wrapper.
C25_HandlerThenOneBroadcast ==
    IsWrapped(last) =>
        IF HandlerRaised(last)
        THEN /\ BroadcastsIn(last) = 0
             /\ ~HasEvent(last, "_get_update")
             /\ last.ret = "raise"
        ELSE /\ BroadcastsIn(last) = 1
             /\ \A i \in 1 .. Len(last.events) :
                    /\ last.events[i].ev \in HandlerEvents
                        => i < FirstPos(last.events, "broadcast_control_changes")
                    /\ last.events[i].ev \in {"_get_update", "_render_widget"}
                        => i > FirstPos(last.events, "broadcast_control_changes")
             /\ last.ret = "None"
                    => Targets(last.events, "_get_update") = control_subscribers

C25_Witness ==
    /\ last.op = "update"
    /\ last.args[1]._slider_freeze
    /\ last.ret = "None"
    /\ Len(control_subscribers) = 2
    /\ BroadcastsIn(last) = 1

SliderParam(c) == c.args[1].control_parameter
SliderValue(c) == c.args[2] * c.args[1].step_size

\* An update never changes which parameters exist, and with its parameter
\* absent it changes no value and still broadcasts once.
C30_StepOk ==
    last'.op = "update" =>
        /\ DOMAIN control_requested' = DOMAIN control_requested
        /\ SliderParam(last') \notin DOMAIN control_requested
            => /\ control_requested' = control_requested
               /\ BroadcastsIn(last') = 1

\* With the parameter present and the slider not frozen, the value
\* new_slider_pos * step_size is in control_requested when the broadcast
\* starts, ahead of every _get_update, and when update returns.
C30_WrittenBeforeBroadcast ==
    (/\ last.op = "update"
     /\ ~last.args[1]._slider_freeze
     /\ SliderParam(last) \in DOMAIN control_requested)
    => /\ control_requested[SliderParam(last)] = SliderValue(last)
       /\ \A i \in 1 .. Len(last.events) :
            /\ last.events[i].ev = "broadcast_control_changes"
                => last.events[i].what[SliderParam(last)] = SliderValue(last)
            /\ last.events[i].ev = "_get_update"
                => i > FirstPos(last.events, "broadcast_control_changes")
       /\ BroadcastsIn(last) = 1

\* C30: BHSliderWidget.update never creates a control parameter: with its
\* parameter absent control_requested is unchanged and the broadcast still
\* happens; with it present and the slider not frozen control_requested
\* holds new_slider_pos * step_size before any subscriber is notified.
C30_SliderNeverCreates ==
    /\ []C30_WrittenBeforeBroadcast
    /\ [][C30_StepOk]_vars

C30_Witness ==
    /\ last.op = "update"
    /\ ~last.args[1]._slider_freeze
    /\ SliderParam(last) \in DOMAIN control_requested
    /\ control_requested[SliderParam(last)] = 4
    /\ HasEvent(last, "_get_update")

\* The absent-parameter case of C30 has happened.
C30_AbsentCase ==
    /\ last.op = "update"
    /\ SliderParam(last) \notin DOMAIN control_requested
    /\ HasEvent(last, "_get_update")

----------------------------------------------------------------------------
(* User code that raises (base.py 399-408, widgets.py 823-858)              *)

LoaderRaised(c) ==
    \E i \in 1 .. Len(c.events) :
        c.events[i].ev = "load_function" /\ c.events[i].raised

\* C26: an exception raised by the user's loader inside set_active_dataset
\* does not leave set_active_dataset.
C26_LoaderErrorContained ==
    (IsSetActive(last) /\ LoaderRaised(last)) => last.ret # "raise"

----------------------------------------------------------------------------
(* Analysis, then plot (widgets.py 860-906)                                 *)

PlotsIn(c) == EventsOf(c.events, "plot_function")

\* C27: a tab with an analysis function calls plot_function only while
\* analysis_finished handles the worker's finished signal, once per signal
\* and with the dict the signal carries; the worker's thread calls it never;
\* a tab without analysis function calls it once inside process() and has
\* no thread and no worker.
C27_PlotAfterAnalysis ==
    /\ last.op \in {"analyze_file", "process"} =>
          IF file_tabs[last.args[1]].analysis_function = "None"
          THEN /\ Len(PlotsIn(last)) = 1
               /\ ~HasEvent(last, "thread.start")
          ELSE PlotsIn(last) = <<>>
    /\ last.op = "run" => PlotsIn(last) = <<>>
    /\ last.op = "analysis_finished" =>
          /\ file_tabs[last.args[1]].analysis_function = "given"
          /\ Len(PlotsIn(last)) = 1
          /\ PlotsIn(last)[1].what.data = last.args[2].data
          /\ FirstPos(last.events, "thread.quit")
                < FirstPos(last.events, "plot_function")
    /\ \A file \in DOMAIN file_tabs :
          file_tabs[file].analysis_function = "None" =>
              /\ TasksOf(tasks, file) = {}
              /\ file_tabs[file].thread = None
              /\ file_tabs[file].worker = None

C27_Witness ==
    /\ last.op = "analysis_finished"
    /\ last.args[2].data = "{peak: 1}"
    /\ Len(PlotsIn(last)) = 1
    /\ \E file \in DOMAIN file_tabs :
          /\ file_tabs[file].analysis_function = "None"
          /\ file_tabs[file].figs = "figures"

----------------------------------------------------------------------------
(* Activation with the descriptor subscribed (base.py 387-430, 482-499)     *)

\* C29: with a loader that returns, set_active_dataset of a unique_id that
\* is catalogued returns True for every slot, whoever is subscribed to the
\* dataset channel.
C29_ActivationCompletes ==
    (/\ IsSetActive(last)
     /\ load_function = "returns_dataset"
     /\ InCatalog(last.args[1]))
    => last.ret = "True"

----------------------------------------------------------------------------
(* Broadcasts started from a render (base.py 127-142, 643-647)              *)

ReentrantOf(c) == c.args[1]
DepthsVisited(c) ==
    {c.events[i].what : i \in {j \in 1 .. Len(c.events) :
                                  c.events[j].ev = "_get_update"}}
Reentered(c) == HasEvent(c, "custom_render_func")
ActiveReentrantSubscriber(c) ==
    \E i \in 1 .. Len(control_subscribers) :
        /\ control_subscribers[i] \in ReentrantOf(c)
        /\ listeners[control_subscribers[i]]._is_active

=============================================================================
